---------------------------- MODULE Spec2Model ----------------------------
(***************************************************************************)
(* A model of the cv_builder render/compile pipeline:                      *)
(*   - latex_escape            (render_cv.py, chief_render_cv.py)          *)
(*   - _resolve_asset_path     (chief_render_cv.py)                        *)
(*   - render_and_compile, render_and_compile_chief, cleanup_workdir       *)
(*   - the Generate handlers of app.py, chief_app.py, chief_super_app.py   *)
(*   - save_profile_from_state, load_profile_into_state, safe_integer_ratio*)
(* A Python str is a sequence of one-character strings.                    *)
(***************************************************************************)
EXTENDS Integers, Sequences, FiniteSets, TLC

\* ------------------------------------------------------------------ bounds
\* Longest input string handed to latex_escape.
MaxLen == 3
\* Largest magnitude of an integer value handed to latex_escape.
MaxInt == 12
\* Build calls one caller makes one after the other.
MaxCalls == 2

\* ------------------------------------------------------------- python values
\* A value handed to the filter: None, a str, or an int.
None == [kind |-> "none"]

PyStr(s) == [kind |-> "str", s |-> s]

PyInt(n) == [kind |-> "int", n |-> n]

\* The characters the inputs are drawn from: the ten specials, a letter that
\* also occurs in the escape sequences, newline, and a non-ASCII letter.
NL == "\n"

EAcute == "e_acute"

Alphabet == {"\\", "&", "%", "$", "#", "_", "{", "}", "~", "^", "t", NL, EAcute}

RECURSIVE Digits(_)
\* Decimal digits of a natural number, most significant first.
Digits(n) ==
    LET d == <<"0", "1", "2", "3", "4", "5", "6", "7", "8", "9">>
    IN  IF n < 10 THEN <<d[n + 1]>> ELSE Digits(n \div 10) \o <<d[(n % 10) + 1]>>

\* str(value) for the values of the model.
str(v) ==
    CASE v.kind = "str" -> v.s
      [] v.kind = "int" -> IF v.n < 0 THEN <<"-">> \o Digits(-v.n) ELSE Digits(v.n)
      [] v.kind = "none" -> <<"N", "o", "n", "e">>

\* ------------------------------------------------------------- latex_escape
replacements_no_hash ==
    ("\\" :> <<"\\", "t", "e", "x", "t", "b", "a", "c", "k", "s", "l", "a", "s", "h", "{", "}">>)
    @@ ("&" :> <<"\\", "&">>)
    @@ ("%" :> <<"\\", "%">>)
    @@ ("$" :> <<"\\", "$">>)
    @@ ("_" :> <<"\\", "_">>)
    @@ ("{" :> <<"\\", "{">>)
    @@ ("}" :> <<"\\", "}">>)
    @@ ("~" :> <<"\\", "t", "e", "x", "t", "a", "s", "c", "i", "i", "t", "i", "l", "d", "e", "{", "}">>)
    @@ ("^" :> <<"\\", "t", "e", "x", "t", "a", "s", "c", "i", "i", "c", "i", "r", "c", "u", "m", "{", "}">>)

replacements_bare_tilde ==
    ("\\" :> <<"\\", "t", "e", "x", "t", "b", "a", "c", "k", "s", "l", "a", "s", "h", "{", "}">>)
    @@ ("&" :> <<"\\", "&">>)
    @@ ("%" :> <<"\\", "%">>)
    @@ ("$" :> <<"\\", "$">>)
    @@ ("#" :> <<"\\", "#">>)
    @@ ("_" :> <<"\\", "_">>)
    @@ ("{" :> <<"\\", "{">>)
    @@ ("}" :> <<"\\", "}">>)
    @@ ("~" :> <<"\\", "~">>)
    @@ ("^" :> <<"\\", "t", "e", "x", "t", "a", "s", "c", "i", "i", "c", "i", "r", "c", "u", "m", "{", "}">>)

\* The dict of latex_escape: special character -> escape sequence.
replacements ==
    ("\\" :> <<"\\", "t", "e", "x", "t", "b", "a", "c", "k", "s", "l", "a", "s", "h", "{", "}">>)
    @@ ("&" :> <<"\\", "&">>)
    @@ ("%" :> <<"\\", "%">>)
    @@ ("$" :> <<"\\", "$">>)
    @@ ("#" :> <<"\\", "#">>)
    @@ ("_" :> <<"\\", "_">>)
    @@ ("{" :> <<"\\", "{">>)
    @@ ("}" :> <<"\\", "}">>)
    @@ ("~" :> <<"\\", "t", "e", "x", "t", "a", "s", "c", "i", "i", "t", "i", "l", "d", "e", "{", "}">>)
    @@ ("^" :> <<"\\", "t", "e", "x", "t", "a", "s", "c", "i", "i", "c", "i", "r", "c", "u", "m", "{", "}">>)

\* dict.get(key, default), the default being a one-character str.
DictGet(d, ch) == IF ch \in DOMAIN d THEN d[ch] ELSE <<ch>>

RECURSIVE Join(_, _)
\* "".join(replacements.get(ch, ch) for ch in s)
Join(d, s) == IF s = <<>> THEN <<>> ELSE DictGet(d, Head(s)) \o Join(d, Tail(s))

RECURSIVE ReplaceAll(_, _, _)
\* str.replace(old, new) for a one-character old.
ReplaceAll(s, old, new) ==
    IF s = <<>> THEN <<>>
    ELSE (IF Head(s) = old THEN new ELSE <<Head(s)>>) \o ReplaceAll(Tail(s), old, new)

RECURSIVE ReplaceChain(_, _, _)
\* s.replace(k1, d[k1]).replace(k2, d[k2])... for the keys in the order given.
ReplaceChain(s, d, keys) ==
    IF keys = <<>> THEN s
    ELSE ReplaceChain(ReplaceAll(s, Head(keys), d[Head(keys)]), d, Tail(keys))

\* The keys of replacements in the order the dict literal lists them.
KeyOrder == <<"\\", "&", "%", "$", "#", "_", "{", "}", "~", "^">>

\* latex_escape written as successive whole-string replacements.
latex_escape_chained(v) ==
    IF v = None THEN [raised |-> FALSE, ret |-> <<>>]
    ELSE [raised |-> FALSE, ret |-> ReplaceChain(str(v), replacements, KeyOrder)]

\* latex_escape without its None guard.
latex_escape_no_guard(v) == [raised |-> FALSE, ret |-> Join(replacements, str(v))]

\* latex_escape(value): what the call returns, and whether it raised.
latex_escape(v) ==
    IF v = None THEN [raised |-> FALSE, ret |-> <<>>]
    ELSE [raised |-> FALSE, ret |-> Join(replacements, str(v))]

\* ------------------------------------------------------------------ paths
\* A pathlib.Path: whether it is absolute, and its components.
AbsPath(parts) == [abs |-> TRUE, parts |-> parts]

RelPath(parts) == [abs |-> FALSE, parts |-> parts]

\* Path.cwd() of the process: the project root the apps are started in.
Cwd == AbsPath(<<"proj">>)

\* a / b: an absolute right operand replaces the left one.
PathJoin(a, b) == IF b.abs THEN b ELSE [abs |-> a.abs, parts |-> a.parts \o b.parts]

RECURSIVE Normalize(_, _)
\* Folds ".." components into the components already read.
Normalize(done, rest) ==
    IF rest = <<>> THEN done
    ELSE IF Head(rest) = ".."
         THEN Normalize(IF done = <<>> THEN <<>> ELSE SubSeq(done, 1, Len(done) - 1), Tail(rest))
         ELSE Normalize(Append(done, Head(rest)), Tail(rest))

\* Path.resolve(): absolute (relative to the cwd) and without ".." components.
resolve(p) == AbsPath(Normalize(<<>>, PathJoin(Cwd, p).parts))

\* Path.name: the final component.
PathName(p) == IF p.parts = <<>> THEN "" ELSE p.parts[Len(p.parts)]

RECURSIVE PartsStr(_)
PartsStr(parts) == IF parts = <<>> THEN "" ELSE "/" \o Head(parts) \o PartsStr(Tail(parts))

\* str(path) of an absolute path.
PathStr(p) == IF p.parts = <<>> THEN "/" ELSE PartsStr(p.parts)

\* The directories that exist throughout.
FixedDirs ==
    {AbsPath(<<>>), AbsPath(<<"proj">>), AbsPath(<<"proj", "templates">>),
     AbsPath(<<"abs">>), AbsPath(<<"tmp">>)}

\* Path.exists() given the asset files that exist: any entry counts, a
\* directory as much as a file.
Exists(p, files) == resolve(p) \in (files \cup FixedDirs)

\* `if maybe_path:` - None and the empty str are falsy. The text of a path is
\* kept as the components pathlib reads from it; the empty str has none.
Truthy(v) == v # None /\ v.s # RelPath(<<>>)

\* Path(maybe_path): the text of a path, read as its components.
Path(v) == v.s

\* ------------------------------------------------------ _resolve_asset_path
\* The fallback with the project root tried before the template directory.
ResolveDefault_root_first(template_dir, project_root, default_name, files, probes) ==
    LET p3 == resolve(PathJoin(template_dir, RelPath(<<default_name>>)))
        p4 == resolve(PathJoin(project_root, RelPath(<<default_name>>)))
    IN  IF Exists(p4, files) THEN [ret |-> p4, probes |-> probes \o <<p4>>]
        ELSE IF Exists(p3, files) THEN [ret |-> p3, probes |-> probes \o <<p4, p3>>]
        ELSE [ret |-> None, probes |-> probes \o <<p4, p3>>]

\* The fallback of _resolve_asset_path: default_name in the template
\* directory, then in the project root, then None.
ResolveDefault(template_dir, project_root, default_name, files, probes) ==
    LET p3 == resolve(PathJoin(template_dir, RelPath(<<default_name>>)))
        p4 == resolve(PathJoin(project_root, RelPath(<<default_name>>)))
    IN  IF Exists(p3, files) THEN [ret |-> p3, probes |-> probes \o <<p3>>]
        ELSE IF Exists(p4, files) THEN [ret |-> p4, probes |-> probes \o <<p3, p4>>]
        ELSE [ret |-> None, probes |-> probes \o <<p3, p4>>]

\* _resolve_asset_path: the path returned (or None) and the paths whose
\* existence it asked for, in order.
_resolve_asset_path(maybe_path, template_dir, project_root, default_name, files) ==
    IF Truthy(maybe_path)
    THEN LET p == Path(maybe_path)
             p1 == resolve(PathJoin(project_root, p))
             p2 == resolve(PathJoin(template_dir, p))
             pr == IF p.abs THEN <<p>> ELSE <<>>
         IN  IF p.abs /\ Exists(p, files) THEN [ret |-> p, probes |-> <<p>>]
             ELSE IF Exists(p1, files) THEN [ret |-> p1, probes |-> pr \o <<p1>>]
             ELSE IF Exists(p2, files) THEN [ret |-> p2, probes |-> pr \o <<p1, p2>>]
             ELSE ResolveDefault(template_dir, project_root, default_name, files,
                                 pr \o <<p1, p2>>)
    ELSE ResolveDefault(template_dir, project_root, default_name, files, <<>>)

\* ------------------------------------------------------------------- state
VARIABLES
    value,       \* the argument of the latex_escape call under test
    esc_pc,      \* "call" before the call, "done" after it
    esc_result,  \* the outcome of the call
    assets,      \* the asset files that exist outside the working directories
    rs_args,     \* the arguments of the _resolve_asset_path call under test
    rs_pc,       \* "call" before the call, "done" after it
    rs_out,      \* what the call returned and the paths it probed
    unreadable,  \* the asset files that exist and cannot be read
    workdirs,    \* each existing working directory: file name -> content
    ncreated,    \* how many directories mkdtemp has made
    budget,      \* how many more build calls each caller makes
    creator,     \* working directory -> the caller whose build made it
    pc,          \* each caller's position in its build call
    call,        \* each caller's build call: arguments, locals, outcome
    known,       \* the working directories whose path a caller was given
    cleaned,     \* the working directories cleanup_workdir was called on
    touched,     \* <<caller, directory>>: the caller's build read or wrote in it
    cleanup_call, \* whether cleanup_workdir was called, and how the latest call ended
    app,         \* which app each session runs
    last_workdir, \* st.session_state.last_workdir of each session
    last_pdf,    \* st.session_state.last_pdf of each session
    last_tex,    \* st.session_state.last_tex of each session
    shown,       \* what the Generate handler of each session displayed last
    field,       \* the user text of the render under test
    tex_pc,      \* "call" before the render, "done" after it
    tex_out,     \* the text the render under test produced
    sdata,       \* st.session_state.data of the chief_super_app session under test
    profiles,    \* users/: profile id -> the files of that profile's folder
    prof_last,   \* the latest profile operation of the session under test
    img_w,       \* the arguments of the safe_integer_ratio call under test
    img_h,
    ratio_pc,    \* "call" before the call, "done" after it
    ratio_out    \* what the call returned

escVars == <<value, esc_pc, esc_result>>

resVars == <<rs_args, rs_pc, rs_out>>

buildVars ==
    <<unreadable, workdirs, ncreated, budget, creator, pc, call, known, cleaned, touched,
      cleanup_call>>

appVars == <<app, last_workdir, last_pdf, last_tex, shown>>

texVars == <<field, tex_pc, tex_out>>

profVars == <<sdata, profiles, prof_last>>

ratioVars == <<img_w, img_h, ratio_pc, ratio_out>>

vars == <<escVars, assets, resVars, buildVars, appVars, texVars, profVars, ratioVars>>

NoResult == [raised |-> FALSE, ret |-> <<"?">>]

NoArgs == [maybe_path |-> None, template_dir |-> Cwd, default_name |-> ""]

NoOut == [ret |-> None, probes |-> <<>>]

EscaperOff == value = None /\ esc_pc = "off" /\ esc_result = NoResult

ResolverOff == rs_args = NoArgs /\ rs_pc = "off" /\ rs_out = NoOut

\* The callers that may build at the same time (two sessions).
Procs == {1, 2}

\* No cleanup_workdir call was made yet.
NoCleanup == [called |-> FALSE]

BuildOff ==
    /\ unreadable = {}
    /\ workdirs = <<>>
    /\ ncreated = 0
    /\ budget = [p \in Procs |-> 0]
    /\ creator = <<>>
    /\ pc = [p \in Procs |-> "off"]
    /\ call = [p \in Procs |-> <<>>]
    /\ known = {}
    /\ cleaned = {}
    /\ touched = {}
    /\ cleanup_call = NoCleanup

\* No session runs an app.
AppOff ==
    /\ app = [p \in Procs |-> "none"]
    /\ last_workdir = [p \in Procs |-> None]
    /\ last_pdf = [p \in Procs |-> None]
    /\ last_tex = [p \in Procs |-> None]
    /\ shown = [p \in Procs |-> <<>>]

RenderOff == field = <<>> /\ tex_pc = "off" /\ tex_out = <<>>

ProfileOff == sdata = <<>> /\ profiles = <<>> /\ prof_last = [op |-> "off"]

RatioOff == img_w = 0 /\ img_h = 0 /\ ratio_pc = "off" /\ ratio_out = <<>>

\* ---------------------------------------------- latex_escape under test
Strings == UNION {[1..n -> Alphabet] : n \in 0..MaxLen}

Values == {None} \cup {PyStr(s) : s \in Strings} \cup {PyInt(n) : n \in (-MaxInt)..MaxInt}

InitEscape ==
    /\ value \in Values
    /\ esc_pc = "call"
    /\ esc_result = NoResult
    /\ assets = {}
    /\ ResolverOff
    /\ BuildOff
    /\ AppOff
    /\ RenderOff
    /\ ProfileOff
    /\ RatioOff

\* The template applies the filter: {{ field|latex }}.
CallEscape ==
    /\ esc_pc = "call"
    /\ esc_result' = latex_escape(value)
    /\ esc_pc' = "done"
    /\ UNCHANGED <<value, assets, resVars, buildVars, appVars, texVars, profVars, ratioVars>>

NextEscape == CallEscape

SpecEscape == InitEscape /\ [][NextEscape]_vars

\* --------------------------------------- _resolve_asset_path under test
\* The asset files that may exist.
AssetUniverse ==
    {AbsPath(<<"proj", "photo_banner.png">>),
     AbsPath(<<"proj", "templates", "photo_banner.png">>),
     AbsPath(<<"proj", "highlight.png">>),
     AbsPath(<<"proj", "templates", "highlight.png">>),
     AbsPath(<<"proj", "up.png">>),
     AbsPath(<<"proj", "templates", "up.png">>),
     AbsPath(<<"abs", "up.png">>)}

\* The values of data.get("photo_banner_path") / data.get("highlight_path").
MaybePaths ==
    {None,
     PyStr(RelPath(<<>>)),
     PyStr(RelPath(<<"photo_banner.png">>)),
     PyStr(RelPath(<<"up.png">>)),
     PyStr(RelPath(<<"..", "up.png">>)),
     PyStr(RelPath(<<"templates">>)),
     PyStr(AbsPath(<<"abs", "up.png">>))}

TemplateDirs == {resolve(RelPath(<<"templates">>)), resolve(RelPath(<<>>))}

DefaultNames == {"photo_banner.png", "highlight.png"}

InitResolve ==
    /\ assets \in SUBSET AssetUniverse
    /\ rs_args \in [maybe_path : MaybePaths, template_dir : TemplateDirs,
                    default_name : DefaultNames]
    /\ rs_pc = "call"
    /\ rs_out = NoOut
    /\ EscaperOff
    /\ BuildOff
    /\ AppOff
    /\ RenderOff
    /\ ProfileOff
    /\ RatioOff

CallResolve ==
    /\ rs_pc = "call"
    /\ rs_out' = _resolve_asset_path(rs_args.maybe_path, rs_args.template_dir, Cwd,
                                     rs_args.default_name, assets)
    /\ rs_pc' = "done"
    /\ UNCHANGED <<escVars, assets, rs_args, buildVars, appVars, texVars, profVars, ratioVars>>

NextResolve == CallResolve

SpecResolve == InitResolve /\ [][NextResolve]_vars

\* ------------------------------------------------- the build: its inputs
\* dict.get(key): None when the key is absent.
Get(d, k) == IF k \in DOMAIN d THEN d[k] ELSE None

\* d[key] = v on a dict.
Put(d, k, v) == (k :> v) @@ d

\* The data records the callers pass. DataA is what the chief apps hold by
\* default (photo_banner_path set, no highlight_path); DataB names an uploaded
\* banner and an absolute highlight.
DataA ==
    ("text" :> PyStr("A")) @@ ("photo_banner_path" :> PyStr(RelPath(<<"photo_banner.png">>)))

DataB ==
    ("text" :> PyStr("B"))
    @@ ("photo_banner_path" :> PyStr(RelPath(<<"up.png">>)))
    @@ ("highlight_path" :> PyStr(AbsPath(<<"abs", "up.png">>)))

\* The installations the builds run in: the asset files that exist, and those
\* of them the process cannot read.
Installations ==
    {[assets |-> {AbsPath(<<"proj", "templates", "photo_banner.png">>),
                  AbsPath(<<"proj", "templates", "highlight.png">>)},
      unreadable |-> {}],
     [assets |-> {AbsPath(<<"proj", "templates", "photo_banner.png">>),
                  AbsPath(<<"proj", "templates", "highlight.png">>)},
      unreadable |-> {AbsPath(<<"proj", "templates", "highlight.png">>)}],
     [assets |-> {AbsPath(<<"proj", "up.png">>), AbsPath(<<"abs", "up.png">>)},
      unreadable |-> {}]}

\* The calls the callers make: the function, its template_path and
\* template_name, and the data record.
CallArgs ==
    {[fn |-> "render_and_compile", template_path |-> "templates",
      template_name |-> "main.tex.j2", data |-> DataA],
     [fn |-> "render_and_compile", template_path |-> "templates",
      template_name |-> "main.tex.j2", data |-> DataB],
     [fn |-> "render_and_compile", template_path |-> "elsewhere",
      template_name |-> "main.tex.j2", data |-> DataA],
     [fn |-> "render_and_compile_chief", template_path |-> "templates",
      template_name |-> "main_chief.tex.j2", data |-> DataA],
     [fn |-> "render_and_compile_chief", template_path |-> "templates",
      template_name |-> "main_chief.tex.j2", data |-> DataB],
     [fn |-> "render_and_compile_chief", template_path |-> "templates",
      template_name |-> "missing.tex.j2", data |-> DataA]}

\* The templates the FileSystemLoader finds.
TemplateExists(template_path, template_name) ==
    /\ template_path = "templates"
    /\ template_name \in {"main.tex.j2", "main_chief.tex.j2"}

\* template.render(**data): the rendered text is whatever the template makes
\* of the record it is handed.
RenderTex(template_name, data) ==
    [kind |-> "tex", template |-> template_name, data |-> data]

\* What the compiler prints (stdout and stderr together).
Logs == {"! LaTeX Error: File not found.\n", "! Undefined control sequence.\nl.12 \\foo\n"}

\* ' '.join(cmd)
Cmd == "latexmk -lualatex -interaction=nonstopmode -halt-on-error main.tex"

\* The message of the RuntimeError _run raises on a non-zero return code.
RunFailedMsg(stdout) ==
    "Command failed:\n" \o Cmd \o "\n\n" \o "---- Build output ----\n" \o stdout

\* The wrapper with the original error left out.
WithBuildFolder_only(ex, workdir) == "Temp build folder: " \o PathStr(workdir)

\* f"{ex}\n\nTemp build folder: {workdir}"
WithBuildFolder(ex, workdir) == ex \o "\n\nTemp build folder: " \o PathStr(workdir)

\* Whether text holds sub as a contiguous part.
Contains(text, sub) ==
    \E i \in 1..(Len(text) - Len(sub) + 1) : SubSeq(text, i, i + Len(sub) - 1) = sub

\* A directory of a fixed name instead of a fresh one.
mkdtemp_fixed(prefix, n) == AbsPath(<<"tmp", prefix>>)

\* tempfile.mkdtemp(prefix=...): a directory that did not exist; the n-th call
\* gets a name no earlier call got.
mkdtemp(prefix, n) == AbsPath(<<"tmp", prefix \o ToString(n + 1)>>)

NoDir == RelPath(<<>>)

NoTex == [kind |-> "none"]

NoProc == [ran |-> FALSE, returncode |-> 0, stdout |-> "", cwd |-> NoDir]

NoOutcome == [kind |-> "none"]

\* The dict object the name data is bound to after data = data: the same one.
dict_same_object(ref) == ref

\* dict(data): a new dict object holding the items of the one ref names.
dict(ref) == "copy"

\* The locals of a call at entry, with two counts of what the call did: runs,
\* the times it called _run, and pdf_read, whether it read main.pdf. caller_data is the caller's dict object and
\* passed what it held when the call was made; data is what the object the
\* name data is bound to holds, and data_ref says which object that is: the
\* parameter is bound to the caller's own object.
NewCall(a) ==
    [fn |-> a.fn, template_path |-> a.template_path, template_name |-> a.template_name,
     passed |-> a.data, caller_data |-> a.data, data |-> a.data, data_ref |-> "caller",
     workdir |-> NoDir,
     banner_src |-> None, highlight_src |-> None,
     tex_str |-> NoTex, proc |-> NoProc, runs |-> 0, pdf_read |-> FALSE,
     outcome |-> NoOutcome]

\* data[key] = v inside the call c: the item is set in the object data is bound to.
SetItem(c, key, v) ==
    [c EXCEPT !.data = Put(@, key, v),
              !.caller_data = IF c.data_ref = "caller" THEN Put(@, key, v) ELSE @]

IsChief(p) == call[p].fn = "render_and_compile_chief"

\* The file name -> content map of caller p's working directory.
Dir(p) == workdirs[call[p].workdir]

\* workdirs after writing content under name in directory d.
WriteFile(d, name, content) == [workdirs EXCEPT ![d] = Put(@, name, content)]

InitBuild(calls) ==
    /\ \E i \in Installations : assets = i.assets /\ unreadable = i.unreadable
    /\ workdirs = <<>>
    /\ ncreated = 0
    /\ budget = calls
    /\ creator = <<>>
    /\ pc = [p \in Procs |-> "idle"]
    /\ call = [p \in Procs |-> NewCall(CHOOSE a \in CallArgs : TRUE)]
    /\ known = {}
    /\ cleaned = {}
    /\ touched = {}
    /\ cleanup_call = NoCleanup
    /\ EscaperOff
    /\ ResolverOff
    /\ AppOff
    /\ RenderOff
    /\ ProfileOff
    /\ RatioOff

\* ------------------------------------------------ the build: its steps
\* What a failing template.render says.
RenderErrorMsg == "'dict object' has no attribute 'institution'"

\* An exception leaves the call: the caller gets its message, and learns the
\* working directory's path only if the message holds it.
Raise(p, type, msg) ==
    /\ pc' = [pc EXCEPT ![p] = "raised"]
    /\ call' = [call EXCEPT ![p].outcome = [kind |-> "error", type |-> type, msg |-> msg]]
    /\ known' = IF call[p].workdir # NoDir /\ Contains(msg, PathStr(call[p].workdir))
                THEN known \cup {call[p].workdir} ELSE known

\* What no step of a build changes.
OutsideBuild == UNCHANGED <<escVars, assets, resVars, unreadable, appVars, texVars, profVars, ratioVars>>

\* The entry of render_and_compile(data) or render_and_compile_chief(data, ...).
\* env.get_template(...) raises TemplateNotFound when the loader has no such
\* file. render_and_compile then renders, tex_str = template.render(**data),
\* before it makes its working directory; rendering may raise (an undefined
\* field, a failing filter).
Enter(p, a) ==
    LET c == NewCall(a)
    IN  \/ /\ ~TemplateExists(a.template_path, a.template_name)
           /\ pc' = [pc EXCEPT ![p] = "raised"]
           /\ call' = [call EXCEPT ![p] =
                          [c EXCEPT !.outcome = [kind |-> "error",
                                                 type |-> "TemplateNotFound",
                                                 msg |-> a.template_name]]]
        \/ /\ TemplateExists(a.template_path, a.template_name)
           /\ a.fn = "render_and_compile_chief"
           /\ pc' = [pc EXCEPT ![p] = "mkdtemp"]
           /\ call' = [call EXCEPT ![p] = c]
        \/ /\ TemplateExists(a.template_path, a.template_name)
           /\ a.fn = "render_and_compile"
           /\ pc' = [pc EXCEPT ![p] = "mkdtemp"]
           /\ call' = [call EXCEPT ![p] =
                          [c EXCEPT !.tex_str = RenderTex(a.template_name, a.data)]]
        \/ /\ TemplateExists(a.template_path, a.template_name)
           /\ a.fn = "render_and_compile"
           /\ pc' = [pc EXCEPT ![p] = "raised"]
           /\ call' = [call EXCEPT ![p] =
                          [c EXCEPT !.outcome = [kind |-> "error",
                                                 type |-> "UndefinedError",
                                                 msg |-> RenderErrorMsg]]]

\* The call with the working directory made before the template is looked up.
Call_mkdtemp_first(p) ==
    /\ pc[p] \in {"idle", "returned", "raised"}
    /\ budget[p] > 0
    /\ budget' = [budget EXCEPT ![p] = @ - 1]
    /\ \E a \in CallArgs :
          LET wd == mkdtemp("cv_build_", ncreated)
          IN  /\ Enter(p, a)
              /\ workdirs' = (wd :> <<>>) @@ workdirs
              /\ creator' = (wd :> p) @@ creator
              /\ ncreated' = ncreated + 1
    /\ UNCHANGED <<known, cleaned, touched, cleanup_call>>
    /\ OutsideBuild

\* A caller that is not inside a build call makes one.
Call(p) ==
    /\ pc[p] \in {"idle", "returned", "raised"}
    /\ budget[p] > 0
    /\ budget' = [budget EXCEPT ![p] = @ - 1]
    /\ \E a \in CallArgs : Enter(p, a)
    /\ UNCHANGED <<workdirs, ncreated, creator, known, cleaned, touched, cleanup_call>>
    /\ OutsideBuild

\* workdir = tempfile.mkdtemp(prefix="cv_build_"). render_and_compile_chief then
\* resolves banner_src and highlight_src and takes its copy, data = dict(data).
Mkdtemp(p) ==
    /\ pc[p] = "mkdtemp"
    /\ LET wd == mkdtemp("cv_build_", ncreated)
           template_dir == resolve(RelPath(<<call[p].template_path>>))
           project_root == Cwd
       IN  /\ workdirs' = (wd :> <<>>) @@ workdirs
           /\ creator' = (wd :> p) @@ creator
           /\ IF IsChief(p)
              THEN call' = [call EXCEPT
                      ![p].workdir = wd,
                      ![p].banner_src =
                          _resolve_asset_path(Get(call[p].data, "photo_banner_path"),
                                              template_dir, project_root,
                                              "photo_banner.png", assets).ret,
                      ![p].highlight_src =
                          _resolve_asset_path(Get(call[p].data, "highlight_path"),
                                              template_dir, project_root,
                                              "highlight.png", assets).ret,
                      ![p].data_ref = dict(call[p].data_ref)]
              ELSE call' = [call EXCEPT ![p].workdir = wd]
    /\ ncreated' = ncreated + 1
    /\ pc' = [pc EXCEPT ![p] = IF IsChief(p) THEN "copy_banner" ELSE "write_tex"]
    /\ UNCHANGED <<budget, known, cleaned, touched, cleanup_call>>
    /\ OutsideBuild

\* shutil.copyfile can read the source: a regular file the process may read.
CanCopy(src) == src \in assets /\ src \notin unreadable

CopyErrorMsg(src) ==
    IF src \in assets THEN "[Errno 13] Permission denied: '" \o PathStr(src) \o "'"
    ELSE "[Errno 21] Is a directory: '" \o PathStr(src) \o "'"

\* The bytes of the asset file src: an image, which starts with the PNG signature.
Bytes(src) == [kind |-> "bytes", magic |-> "PNG", of |-> src]

\* The copy that leaves a file already present under the name as it is.
CopyAsset_keep_existing(p, src, key, next) ==
    IF src = None
    THEN /\ pc' = [pc EXCEPT ![p] = next]
         /\ UNCHANGED <<workdirs, call, known, touched>>
    ELSE IF CanCopy(src)
    THEN /\ workdirs' = IF PathName(src) \in DOMAIN Dir(p) THEN workdirs
                        ELSE WriteFile(call[p].workdir, PathName(src), Bytes(src))
         /\ call' = [call EXCEPT ![p] = SetItem(@, key, PyStr(RelPath(<<PathName(src)>>)))]
         /\ touched' = touched \cup {<<p, call[p].workdir>>}
         /\ pc' = [pc EXCEPT ![p] = next]
         /\ UNCHANGED known
    ELSE /\ Raise(p, "OSError", CopyErrorMsg(src))
         /\ UNCHANGED <<workdirs, touched>>

\* if src: data[key] = _copy_asset_to_workdir(src, workdir), leading to pc next.
CopyAsset(p, src, key, next) ==
    IF src = None
    THEN /\ pc' = [pc EXCEPT ![p] = next]
         /\ UNCHANGED <<workdirs, call, known, touched>>
    ELSE IF CanCopy(src)
    THEN /\ workdirs' = WriteFile(call[p].workdir, PathName(src), Bytes(src))
         /\ call' = [call EXCEPT ![p] = SetItem(@, key, PyStr(RelPath(<<PathName(src)>>)))]
         /\ touched' = touched \cup {<<p, call[p].workdir>>}
         /\ pc' = [pc EXCEPT ![p] = next]
         /\ UNCHANGED known
    ELSE /\ Raise(p, "OSError", CopyErrorMsg(src))
         /\ UNCHANGED <<workdirs, touched>>

CopyBanner(p) ==
    /\ pc[p] = "copy_banner"
    /\ CopyAsset(p, call[p].banner_src, "photo_banner_path", "copy_highlight")
    /\ UNCHANGED <<ncreated, budget, creator, cleaned, cleanup_call>>
    /\ OutsideBuild

\* The highlight left uncopied before main.tex is written.
CopyHighlight_skipped(p) ==
    /\ pc[p] = "copy_highlight"
    /\ pc' = [pc EXCEPT ![p] = "write_tex"]
    /\ UNCHANGED <<workdirs, call, known, touched>>
    /\ UNCHANGED <<ncreated, budget, creator, cleaned, cleanup_call>>
    /\ OutsideBuild

CopyHighlight(p) ==
    /\ pc[p] = "copy_highlight"
    /\ CopyAsset(p, call[p].highlight_src, "highlight_path", "write_tex")
    /\ UNCHANGED <<ncreated, budget, creator, cleaned, cleanup_call>>
    /\ OutsideBuild

\* (workdir / "main.tex").write_text(tex_str). render_and_compile_chief renders
\* here, tex_str = template.render(**data), after the copies; rendering may raise.
WriteTex(p) ==
    /\ pc[p] = "write_tex"
    /\ LET tex_str == IF IsChief(p) THEN RenderTex(call[p].template_name, call[p].data)
                      ELSE call[p].tex_str
       IN  \/ /\ workdirs' = WriteFile(call[p].workdir, "main.tex", tex_str)
              /\ touched' = touched \cup {<<p, call[p].workdir>>}
              /\ call' = [call EXCEPT ![p].tex_str = tex_str]
              /\ pc' = [pc EXCEPT ![p] = "run"]
              /\ UNCHANGED known
           \/ /\ IsChief(p)
              /\ Raise(p, "UndefinedError", RenderErrorMsg)
              /\ UNCHANGED <<workdirs, touched>>
    /\ UNCHANGED <<ncreated, budget, creator, cleaned, cleanup_call>>
    /\ OutsideBuild

\* The except branch, with the build folder removed on failure.
CompileFailed_rmtree(p, ex, proc, dirs) ==
    /\ pc' = [pc EXCEPT ![p] = "raised"]
    /\ call' = [call EXCEPT ![p].outcome = [kind |-> "error", type |-> "RuntimeError",
                                            msg |-> WithBuildFolder(ex, call[p].workdir)],
                            ![p].proc = proc, ![p].runs = @ + 1]
    /\ known' = known \cup {call[p].workdir}
    /\ workdirs' = [d \in DOMAIN dirs \ {call[p].workdir} |-> dirs[d]]

\* The except branch that runs the command a second time before giving up.
CompileFailed_retry(p, ex, proc, dirs) ==
    /\ pc' = [pc EXCEPT ![p] = IF call[p].runs = 0 THEN "run" ELSE "raised"]
    /\ LET msg == WithBuildFolder(ex, call[p].workdir)
       IN  /\ call' = [call EXCEPT ![p].outcome =
                            IF call[p].runs = 0 THEN @
                            ELSE [kind |-> "error", type |-> "RuntimeError", msg |-> msg],
                                   ![p].proc = proc, ![p].runs = @ + 1]
           /\ known' = IF call[p].runs # 0 /\ Contains(msg, PathStr(call[p].workdir))
                       THEN known \cup {call[p].workdir} ELSE known
    /\ workdirs' = dirs

\* except Exception as ex: raise RuntimeError(f"{ex}\n\nTemp build folder: ...").
\* proc is what subprocess.run returned, dirs the directories as the compiler left them.
CompileFailed(p, ex, proc, dirs) ==
    /\ pc' = [pc EXCEPT ![p] = "raised"]
    /\ LET msg == WithBuildFolder(ex, call[p].workdir)
       IN  /\ call' = [call EXCEPT ![p].outcome = [kind |-> "error", type |-> "RuntimeError",
                                                  msg |-> msg],
                                   ![p].proc = proc, ![p].runs = @ + 1]
           /\ known' = IF Contains(msg, PathStr(call[p].workdir))
                       THEN known \cup {call[p].workdir} ELSE known
    /\ workdirs' = dirs

\* What subprocess.run(cmd, cwd=cwd, ...) returns: the process ran in cwd,
\* ended with returncode and printed stdout.
CompletedProcess(cwd, returncode, stdout) ==
    [ran |-> TRUE, returncode |-> returncode, stdout |-> stdout, cwd |-> cwd]

\* _run([latexmk ...], cwd=workdir): the compiler runs in the working
\* directory, reads main.tex there and prints its log. It may fail to start,
\* exit non-zero, or exit zero having written main.pdf or not.
RunCompiler(p) ==
    /\ pc[p] = "run"
    /\ touched' = touched \cup {<<p, call[p].workdir>>}
    /\ \/ CompileFailed(p, "[Errno 2] No such file or directory: 'latexmk'", NoProc, workdirs)
       \/ \E log \in Logs :
             CompileFailed(p, RunFailedMsg(log),
                           CompletedProcess(call[p].workdir, 1, log),
                           WriteFile(call[p].workdir, "main.log", [kind |-> "log", text |-> log]))
       \/ /\ "main.tex" \in DOMAIN Dir(p)
          /\ workdirs' = WriteFile(call[p].workdir, "main.pdf",
                                   [kind |-> "pdf", magic |-> "%PDF", src |-> Dir(p)["main.tex"]])
          /\ call' = [call EXCEPT ![p].proc = CompletedProcess(call[p].workdir, 0, ""),
                               ![p].runs = @ + 1]
          /\ pc' = [pc EXCEPT ![p] = "collect"]
          /\ UNCHANGED known
       \/ /\ call' = [call EXCEPT ![p].proc = CompletedProcess(call[p].workdir, 0, ""),
                               ![p].runs = @ + 1]
          /\ pc' = [pc EXCEPT ![p] = "collect"]
          /\ UNCHANGED <<workdirs, known>>
    /\ UNCHANGED <<ncreated, budget, creator, cleaned, cleanup_call>>
    /\ OutsideBuild

\* The missing PDF reported the way a failed command is.
PdfMissingMsg_command_failed == RunFailedMsg("")

\* The message of the RuntimeError raised when main.pdf is not there.
PdfMissingMsg == "Build succeeded but main.pdf was not created (unexpected)."

\* The result carrying a text rendered again from the caller's record instead
\* of the text that was written to main.tex.
Collect_rerendered(p) ==
    /\ pc[p] = "collect"
    /\ touched' = touched \cup {<<p, call[p].workdir>>}
    /\ IF "main.pdf" \notin DOMAIN Dir(p)
       THEN Raise(p, "RuntimeError", PdfMissingMsg)
       ELSE /\ call' = [call EXCEPT ![p].outcome =
                            [kind |-> "RenderResult", pdf_bytes |-> Dir(p)["main.pdf"],
                             tex_str |-> RenderTex(call[p].template_name, call[p].caller_data),
                             workdir |-> call[p].workdir],
                                    ![p].pdf_read = TRUE]
            /\ pc' = [pc EXCEPT ![p] = "returned"]
            /\ known' = known \cup {call[p].workdir}
    /\ UNCHANGED <<workdirs, ncreated, budget, creator, cleaned, cleanup_call>>
    /\ OutsideBuild

\* if not pdf_path.exists(): raise ...; return RenderResult(pdf_path.read_bytes(), ...)
Collect(p) ==
    /\ pc[p] = "collect"
    /\ touched' = touched \cup {<<p, call[p].workdir>>}
    /\ IF "main.pdf" \notin DOMAIN Dir(p)
       THEN Raise(p, "RuntimeError", PdfMissingMsg)
       ELSE /\ call' = [call EXCEPT ![p].outcome =
                            [kind |-> "RenderResult", pdf_bytes |-> Dir(p)["main.pdf"],
                             tex_str |-> call[p].tex_str, workdir |-> call[p].workdir],
                                    ![p].pdf_read = TRUE]
            /\ pc' = [pc EXCEPT ![p] = "returned"]
            /\ known' = known \cup {call[p].workdir}
    /\ UNCHANGED <<workdirs, ncreated, budget, creator, cleaned, cleanup_call>>
    /\ OutsideBuild

\* os.path.isdir(workdir)
IsDir(d) == d \in DOMAIN workdirs \/ d \in FixedDirs

\* The paths a caller passes to cleanup_workdir: a build folder it was given
\* (one still there or one already removed), None, or the empty str.
CleanupArgs == {None, PyStr(RelPath(<<>>))} \cup {PyStr(d) : d \in known}

\* rmtree raising whatever ignore_errors says.
rmtree_strict(ignore_errors, fails) == [removed |-> ~fails, raised |-> fails]

\* shutil.rmtree(path, ignore_errors): the tree is removed, or an error stops
\* the removal (fails), and the error is raised unless ignore_errors is set.
rmtree(ignore_errors, fails) == [removed |-> ~fails, raised |-> fails /\ ~ignore_errors]

\* What one cleanup_workdir(workdir) call does: whether it got to rmtree,
\* whether the directory went away, whether an exception left the call.
CleanupRun(workdir, fails) ==
    IF Truthy(workdir) /\ IsDir(Path(workdir))
    THEN LET r == rmtree(TRUE, fails)
         IN  [existed |-> TRUE, removed |-> r.removed, raised |-> r.raised]
    ELSE [existed |-> FALSE, removed |-> FALSE, raised |-> FALSE]

\* The working directories after that call.
CleanupDirs(workdir, fails) ==
    IF CleanupRun(workdir, fails).removed
    THEN [d \in DOMAIN workdirs \ {Path(workdir)} |-> workdirs[d]]
    ELSE workdirs

\* How that call ended: by a return or by an exception.
CleanupRecord(workdir, fails) ==
    [called |-> TRUE, raised |-> CleanupRun(workdir, fails).raised]

\* cleanup_workdir(workdir), called by a caller outside a build.
cleanup_workdir(workdir, fails) ==
    /\ workdirs' = CleanupDirs(workdir, fails)
    /\ cleaned' = IF Truthy(workdir) THEN cleaned \cup {Path(workdir)} ELSE cleaned
    /\ cleanup_call' = CleanupRecord(workdir, fails)
    /\ UNCHANGED <<ncreated, budget, creator, pc, call, known, touched>>
    /\ OutsideBuild

Cleanup == \E workdir \in CleanupArgs, fails \in BOOLEAN : cleanup_workdir(workdir, fails)

NextBuild ==
    \/ \E p \in Procs : Call(p)
    \/ \E p \in Procs : Mkdtemp(p)
    \/ \E p \in Procs : CopyBanner(p)
    \/ \E p \in Procs : CopyHighlight(p)
    \/ \E p \in Procs : WriteTex(p)
    \/ \E p \in Procs : RunCompiler(p)
    \/ \E p \in Procs : Collect(p)
    \/ Cleanup

\* One caller building MaxCalls times, one call after the other.
Spec == InitBuild([p \in Procs |-> IF p = 1 THEN MaxCalls ELSE 0]) /\ [][NextBuild]_vars

\* Two callers, each making one build call, at the same time.
SpecPair == InitBuild([p \in Procs |-> 1]) /\ [][NextBuild]_vars

\* ------------------------------- builds with assets named like build files
\* A record whose highlight is an image file named main.pdf.
DataC ==
    ("text" :> PyStr("A"))
    @@ ("photo_banner_path" :> PyStr(RelPath(<<"photo_banner.png">>)))
    @@ ("highlight_path" :> PyStr(AbsPath(<<"abs", "main.pdf">>)))

\* The calls of a caller whose asset paths may have the base name of a file
\* the build itself makes.
ClashArgs ==
    {[fn |-> "render_and_compile_chief", template_path |-> "templates",
      template_name |-> "main_chief.tex.j2", data |-> d] : d \in {DataA, DataC}}

InitClash ==
    /\ assets = {AbsPath(<<"proj", "templates", "photo_banner.png">>),
                 AbsPath(<<"abs", "main.pdf">>)}
    /\ unreadable = {}
    /\ workdirs = <<>>
    /\ ncreated = 0
    /\ budget = [p \in Procs |-> IF p = 1 THEN MaxCalls ELSE 0]
    /\ creator = <<>>
    /\ pc = [p \in Procs |-> "idle"]
    /\ call = [p \in Procs |-> NewCall(CHOOSE a \in CallArgs : TRUE)]
    /\ known = {}
    /\ cleaned = {}
    /\ touched = {}
    /\ cleanup_call = NoCleanup
    /\ EscaperOff
    /\ ResolverOff
    /\ AppOff
    /\ RenderOff
    /\ ProfileOff
    /\ RatioOff

\* A caller that is not inside a build call makes one of those calls.
CallClash(p) ==
    /\ pc[p] \in {"idle", "returned", "raised"}
    /\ budget[p] > 0
    /\ budget' = [budget EXCEPT ![p] = @ - 1]
    /\ \E a \in ClashArgs : Enter(p, a)
    /\ UNCHANGED <<workdirs, ncreated, creator, known, cleaned, touched, cleanup_call>>
    /\ OutsideBuild

NextClash ==
    \/ \E p \in Procs : CallClash(p)
    \/ \E p \in Procs : Mkdtemp(p)
    \/ \E p \in Procs : CopyBanner(p)
    \/ \E p \in Procs : CopyHighlight(p)
    \/ \E p \in Procs : WriteTex(p)
    \/ \E p \in Procs : RunCompiler(p)
    \/ \E p \in Procs : Collect(p)
    \/ Cleanup

\* One caller making MaxCalls such build calls, one after the other.
SpecClash == InitClash /\ [][NextClash]_vars

\* ------------------------------------------ template rendering under test
\* The characters the user text of the render under test is drawn from: those
\* the template-syntax tokens are made of, and a letter.
FieldAlphabet == {"(", ")", "*", "#", "%", "{", "}", " ", "t"}

Fields == UNION {[1..n -> FieldAlphabet] : n \in 0..MaxLen}

\* A template as the sequence of its parts: literal text, and {{ name|filter }}.
\* This one is the example the docstring of render_and_compile gives,
\* {{ first_name|latex }}.
ExampleTemplate == <<[part |-> "var", name |-> "first_name", filter |-> "latex"]>>

\* What one part of a template renders to.
RenderPart(part, data) ==
    IF part.part = "lit" THEN part.text
    ELSE IF part.filter = "latex" THEN latex_escape(Get(data, part.name)).ret
    ELSE str(Get(data, part.name))

RECURSIVE RenderText(_, _)
\* template.render(**data): the parts' texts, one after the other.
RenderText(template, data) ==
    IF template = <<>> THEN <<>>
    ELSE RenderPart(Head(template), data) \o RenderText(Tail(template), data)

InitRender ==
    /\ field \in Fields
    /\ tex_pc = "call"
    /\ tex_out = <<>>
    /\ assets = {}
    /\ EscaperOff
    /\ ResolverOff
    /\ BuildOff
    /\ AppOff
    /\ ProfileOff
    /\ RatioOff

\* tex_str = template.render(**data), the user text being data["first_name"].
CallRender ==
    /\ tex_pc = "call"
    /\ tex_out' = RenderText(ExampleTemplate, ("first_name" :> PyStr(field)))
    /\ tex_pc' = "done"
    /\ UNCHANGED <<field, escVars, assets, resVars, buildVars, appVars, profVars, ratioVars>>

NextRender == CallRender

SpecRender == InitRender /\ [][NextRender]_vars

\* ------------------------------------------- safe_integer_ratio under test
\* The banner's size in pixels.
TARGET_W == 1525

TARGET_H == 700

\* margin_factor = 7.5, as the fraction MarginNum / MarginDen.
MarginNum == 15

MarginDen == 2

\* The 1.1 of the function's docstring, as the fraction DocNum / DocDen.
DocNum == 11

DocDen == 10

\* min(a, b)
Min(a, b) == IF a <= b THEN a ELSE b

\* max(a, b)
Max(a, b) == IF a >= b THEN a ELSE b

\* int(base * smallest_ratio), smallest_ratio being the float nearest to
\* top / bottom up to rounding: the floor of base * top / bottom, except that
\* a product which is a whole number k in exact arithmetic may come out just
\* below k as a float, and int() then gives k - 1.
IntOfProduct(base, top, bottom) ==
    LET k == (base * top) \div bottom
    IN  IF (base * top) % bottom = 0 THEN {k - 1, k} ELSE {k}

\* What the function can return with the margin num/den: the ratios
\* img_h / base_h and img_w / base_w are compared as exact fractions (the
\* float comparisons agree with them for whole-number sizes).
RatioWithMargin(w, h, base_w, base_h, num, den) ==
    IF w <= 0 \/ h <= 0 THEN {<<base_w, base_h>>}
    ELSE IF h * den > base_h * num /\ w * den > base_w * num THEN {<<base_w, base_h>>}
    ELSE LET height_is_smallest == h * base_w <= w * base_h
             \* min(height_ratio, width_ratio) / margin_factor = top / bottom
             top == (IF height_is_smallest THEN h ELSE w) * den
             bottom == (IF height_is_smallest THEN base_h ELSE base_w) * num
         IN  {IF Max(1, new_w) < 2 \/ Max(1, new_h) < 2 THEN <<base_w, base_h>>
              ELSE <<Max(1, new_w), Max(1, new_h)>> :
                 new_w \in IntOfProduct(base_w, top, bottom),
                 new_h \in IntOfProduct(base_h, top, bottom)}

\* The values safe_integer_ratio(img_w, img_h) can return with the default
\* base_w and base_h.
safe_integer_ratio(w, h) == RatioWithMargin(w, h, TARGET_W, TARGET_H, MarginNum, MarginDen)

\* The widths and heights of the uploaded images: none, tiny, around the
\* banner's own size, around 1.1 times it and around 7.5 times it.
ImageSizes ==
    {-1, 0, 1, 14, 15, 16, 700, 770, 771, 1525, 1677, 1678, 1800,
     5250, 5251, 11437, 11438, 12000}

InitRatio ==
    /\ img_w \in ImageSizes
    /\ img_h \in ImageSizes
    /\ ratio_pc = "call"
    /\ ratio_out = <<>>
    /\ assets = {}
    /\ EscaperOff
    /\ ResolverOff
    /\ BuildOff
    /\ AppOff
    /\ RenderOff
    /\ ProfileOff

\* rw, rh = safe_integer_ratio(img.size[0], img.size[1])
CallRatio ==
    /\ ratio_pc = "call"
    /\ ratio_out' \in safe_integer_ratio(img_w, img_h)
    /\ ratio_pc' = "done"
    /\ UNCHANGED <<img_w, img_h, escVars, assets, resVars, buildVars, appVars, texVars,
                   profVars>>

NextRatio == CallRatio

SpecRatio == InitRatio /\ [][NextRatio]_vars

\* ------------------------------------------------- profile persistence
PyBool(b) == [kind |-> "bool", b |-> b]

PyList(items) == [kind |-> "list", items |-> items]

PyDict(d) == [kind |-> "dict", d |-> d]

\* d.pop(key, None)
Pop(d, key) == [k \in DOMAIN d \ {key} |-> d[k]]

\* merged.update(data): the items of data, over those of merged.
Update(merged, data) == data @@ merged

\* The PNG bytes of a banner the user uploaded and cropped (or, in
\* chief_super_app, of the banner a loaded profile had saved).
UploadedBanner == [kind |-> "bytes", magic |-> "PNG", of |-> "upload"]

\* The PNG bytes of a second banner.
OtherBanner == [kind |-> "bytes", magic |-> "PNG", of |-> "upload 2"]

Banners == {UploadedBanner, OtherBanner}

\* default_data(): a str, the banner's path, a list of dicts and a bool.
default_data ==
    ("first_name" :> PyStr("Chief"))
    @@ ("photo_banner_path" :> PyStr(RelPath(<<"photo_banner.png">>)))
    @@ ("employment_rows" :>
           PyList(<<PyDict(("year" :> PyStr("2026")) @@ ("org" :> PyStr("CHIEF CONSULTING AB")))>>))
    @@ ("summary_enabled" :> PyBool(TRUE))

RECURSIVE json_dumps(_)
\* json.dumps(v): the JSON text, as the tree of its tokens. A str becomes a
\* JSON string, a bool one of the literals true and false, None null, a list
\* an array, a dict an object; bytes are not serializable (TypeError).
json_dumps(v) ==
    CASE v.kind = "str" -> [j |-> "string", chars |-> v.s]
      [] v.kind = "bool" -> [j |-> "literal", text |-> IF v.b THEN "true" ELSE "false"]
      [] v.kind = "none" -> [j |-> "literal", text |-> "null"]
      [] v.kind = "list" ->
            [j |-> "array", items |-> [i \in 1..Len(v.items) |-> json_dumps(v.items[i])]]
      [] v.kind = "dict" ->
            [j |-> "object", members |-> [k \in DOMAIN v.d |-> json_dumps(v.d[k])]]
      [] v.kind = "bytes" -> [j |-> "TypeError"]

RECURSIVE json_loads(_)
\* json.loads(text): the value a JSON text stands for.
json_loads(t) ==
    CASE t.j = "string" -> PyStr(t.chars)
      [] t.j = "literal" ->
            IF t.text = "null" THEN None ELSE PyBool(t.text = "true")
      [] t.j = "array" -> PyList([i \in 1..Len(t.items) |-> json_loads(t.items[i])])
      [] t.j = "object" -> PyDict([k \in DOMAIN t.members |-> json_loads(t.members[k])])

\* A file that does not exist.
NoFile == [kind |-> "absent"]

\* The folder users/<profile_id> of store, as profile_paths names its files;
\* every file absent when the folder is new.
ProfileFiles(store, profile_id) ==
    IF profile_id \in DOMAIN store THEN store[profile_id]
    ELSE [data |-> NoFile, banner |-> NoFile, pdf |-> NoFile, tex |-> NoFile]

\* isinstance(banner_bytes, (bytes, bytearray)) and len(banner_bytes) > 0: the
\* bytes of a PNG image are never empty.
IsBannerBytes(v) == v.kind = "bytes"

\* load_profile_into_state that does not read the banner file.
load_profile_without_banner(store, profile_id, state_data) ==
    IF profile_id \notin DOMAIN store THEN state_data
    ELSE LET files == store[profile_id]
             data == IF files.data # NoFile THEN json_loads(files.data).d ELSE <<>>
             merged == Update(default_data, data)
         IN  Put(Pop(merged, "photo_banner_bytes"),
                 "photo_banner_path", PyStr(RelPath(<<"photo_banner.png">>)))

\* load_profile_into_state(profile_id): what st.session_state.data is after
\* the call, state_data being what it was before. A missing folder leaves it;
\* else data.txt is read over default_data(), and the banner file's bytes are
\* put under photo_banner_bytes if that file exists.
load_profile_into_state(store, profile_id, state_data) ==
    IF profile_id \notin DOMAIN store THEN state_data
    ELSE LET files == store[profile_id]
             data == IF files.data # NoFile THEN json_loads(files.data).d ELSE <<>>
             merged == Update(default_data, data)
         IN  IF files.banner # NoFile
             THEN Put(Put(merged, "photo_banner_bytes", files.banner),
                      "photo_banner_path", PyStr(RelPath(<<"photo_banner.png">>)))
             ELSE Put(Pop(merged, "photo_banner_bytes"),
                      "photo_banner_path", PyStr(RelPath(<<"photo_banner.png">>)))

\* save_profile_from_state(profile_id, result_pdf, result_tex): users/ after
\* the call. The banner file is written only from banner bytes in the data,
\* and otherwise left as it is; data.txt gets the JSON text of the data
\* without photo_banner_bytes.
save_profile_from_state(store, profile_id, state_data, result_pdf, result_tex) ==
    LET files == ProfileFiles(store, profile_id)
        banner_bytes == Get(state_data, "photo_banner_bytes")
        data == Pop(state_data, "photo_banner_bytes")
    IN  Put(store, profile_id,
            [data |-> json_dumps(PyDict(data)),
             banner |-> IF IsBannerBytes(banner_bytes) THEN banner_bytes ELSE files.banner,
             pdf |-> result_pdf,
             tex |-> result_tex])

\* The profile ids of the session under test.
ProfileIds == {"chief_chiefsson", "ann_chiefsson"}

\* The outputs of the build whose result is saved.
SavedTex == RenderTex("main_chief.tex.j2", DataA)

SavedPdf == [kind |-> "pdf", magic |-> "%PDF", src |-> SavedTex]

\* init_state of chief_super_app: default data, an empty users/ folder.
InitProfile ==
    /\ sdata = default_data
    /\ profiles = <<>>
    /\ prof_last = [op |-> "init"]
    /\ assets = {}
    /\ EscaperOff
    /\ ResolverOff
    /\ BuildOff
    /\ AppOff
    /\ RenderOff
    /\ RatioOff

OutsideProfile ==
    UNCHANGED <<escVars, assets, resVars, buildVars, appVars, texVars, ratioVars>>

\* data["first_name"] = c1.text_input(...): the user types a first name.
EditFirstName ==
    /\ \E name \in {"Chief", "Ann"} : sdata' = Put(sdata, "first_name", PyStr(name))
    /\ sdata' # sdata
    /\ prof_last' = [op |-> "edit"]
    /\ UNCHANGED profiles
    /\ OutsideProfile

\* data["summary_enabled"] = st.checkbox(...): the user flips the checkbox.
ToggleSummary ==
    /\ sdata' = Put(sdata, "summary_enabled", PyBool(~sdata["summary_enabled"].b))
    /\ prof_last' = [op |-> "edit"]
    /\ UNCHANGED profiles
    /\ OutsideProfile

\* The user uploads and crops a banner: photo_banner_bytes and
\* photo_banner_path are set.
UploadBanner ==
    /\ \E b \in Banners :
          sdata' = Put(Put(sdata, "photo_banner_bytes", b),
                       "photo_banner_path", PyStr(RelPath(<<"photo_banner.png">>)))
    /\ sdata' # sdata
    /\ prof_last' = [op |-> "edit"]
    /\ UNCHANGED profiles
    /\ OutsideProfile

\* "New profile": st.session_state.data = default_data().
NewProfile ==
    /\ sdata # default_data
    /\ sdata' = default_data
    /\ prof_last' = [op |-> "edit"]
    /\ UNCHANGED profiles
    /\ OutsideProfile

\* A successful Generate saves the session's data under a profile id.
SaveProfile ==
    /\ \E profile_id \in ProfileIds :
          /\ profiles' = save_profile_from_state(profiles, profile_id, sdata,
                                                 SavedPdf, SavedTex)
          /\ prof_last' = [op |-> "save", profile_id |-> profile_id, data |-> sdata]
    /\ UNCHANGED sdata
    /\ OutsideProfile

\* The user picks a profile and loads it.
LoadProfile ==
    /\ \E profile_id \in ProfileIds :
          /\ sdata' = load_profile_into_state(profiles, profile_id, sdata)
          /\ prof_last' =
                IF prof_last.op = "save" /\ prof_last.profile_id = profile_id
                THEN [op |-> "load", profile_id |-> profile_id, after_save |-> TRUE,
                      saved |-> prof_last.data]
                ELSE [op |-> "load", profile_id |-> profile_id, after_save |-> FALSE]
    /\ UNCHANGED profiles
    /\ OutsideProfile

NextProfile ==
    \/ EditFirstName
    \/ ToggleSummary
    \/ UploadBanner
    \/ NewProfile
    \/ SaveProfile
    \/ LoadProfile

\* One chief_super_app session editing, saving and loading profiles.
SpecProfile == InitProfile /\ [][NextProfile]_vars

\* ------------------------------------------------- the apps' sessions
\* The three Streamlit apps.
Apps == {"app", "chief_app", "chief_super_app"}

\* The data a session holds when Generate is clicked: the user edits the text
\* between clicks; the chief apps keep photo_banner_path at "photo_banner.png"
\* and set no highlight_path.
SessionData == {DataA, Put(DataA, "text", PyStr("C"))}

\* The data of a chief app's session after a banner upload:
\* data["photo_banner_bytes"] = out.getvalue().
UploadedData == {Put(d, "photo_banner_bytes", UploadedBanner) : d \in SessionData}

\* The build call each app's Generate handler makes.
AppCallArgs(kind) ==
    IF kind = "app"
    THEN {[fn |-> "render_and_compile", template_path |-> "templates",
           template_name |-> "main.tex.j2", data |-> d] : d \in SessionData}
    ELSE {[fn |-> "render_and_compile_chief", template_path |-> "templates",
           template_name |-> "main_chief.tex.j2", data |-> d] :
              d \in SessionData \cup UploadedData}

\* init_state: one session of one of the apps, nothing generated yet.
InitApp ==
    /\ \E i \in Installations : assets = i.assets /\ unreadable = i.unreadable
    /\ workdirs = <<>>
    /\ ncreated = 0
    /\ budget = [p \in Procs |-> IF p = 1 THEN MaxCalls ELSE 0]
    /\ creator = <<>>
    /\ pc = [p \in Procs |-> "idle"]
    /\ call = [p \in Procs |-> NewCall(CHOOSE a \in CallArgs : TRUE)]
    /\ known = {}
    /\ cleaned = {}
    /\ touched = {}
    /\ cleanup_call = NoCleanup
    /\ \E kind \in Apps : app = [p \in Procs |-> IF p = 1 THEN kind ELSE "none"]
    /\ last_workdir = [p \in Procs |-> None]
    /\ last_pdf = [p \in Procs |-> None]
    /\ last_tex = [p \in Procs |-> None]
    /\ shown = [p \in Procs |-> <<>>]
    /\ EscaperOff
    /\ ResolverOff
    /\ RenderOff
    /\ ProfileOff
    /\ RatioOff

\* last_workdir left as it is after the cleanup.
ResetTracked_keep(p) == last_workdir

\* st.session_state.last_workdir = None
ResetTracked(p) == [last_workdir EXCEPT ![p] = None]

\* Generate is clicked: if last_workdir: cleanup_workdir(last_workdir);
\* last_workdir = None. Then the try block enters the build call.
Click(p) ==
    /\ app[p] \in Apps
    /\ pc[p] = "idle"
    /\ budget[p] > 0
    /\ budget' = [budget EXCEPT ![p] = @ - 1]
    /\ IF Truthy(last_workdir[p])
       THEN /\ \E fails \in BOOLEAN :
                  /\ workdirs' = CleanupDirs(last_workdir[p], fails)
                  /\ cleanup_call' = CleanupRecord(last_workdir[p], fails)
            /\ cleaned' = cleaned \cup {Path(last_workdir[p])}
            /\ last_workdir' = ResetTracked(p)
       ELSE UNCHANGED <<workdirs, cleanup_call, cleaned, last_workdir>>
    /\ \E a \in AppCallArgs(app[p]) : Enter(p, a)
    /\ UNCHANGED <<ncreated, creator, known, touched, app, last_pdf, last_tex, shown>>
    /\ UNCHANGED <<escVars, assets, resVars, unreadable, texVars, profVars, ratioVars>>

\* What the except branch displays: the error text, and the build folder if
\* last_workdir is set.
ShowError(p, msg, tracked) == [shown EXCEPT ![p] = [kind |-> "error", log |-> msg,
                                                    folder |-> tracked]]

\* last_tex left as it was.
StoreTex_skipped(p, result) == last_tex

\* st.session_state.last_tex = result.tex_str
StoreTex(p, result) == [last_tex EXCEPT ![p] = result.tex_str]

\* The profile id of the session: slugify_profile(data.get("first_name", ""),
\* data.get("last_name", "")) of data without those keys.
SessionProfile == "profile"

\* The rest of the handler. After a return: last_pdf, last_tex and
\* last_workdir are set from the result and the success is displayed;
\* chief_super_app saves the profile first, and a save that fails (at its
\* first write, the folder's creation) ends in the except branch. After an
\* exception: the except branch.
HandlerEnd(p) ==
    /\ app[p] \in Apps
    /\ pc[p] \in {"returned", "raised"}
    /\ pc' = [pc EXCEPT ![p] = "idle"]
    /\ IF pc[p] = "returned"
       THEN LET result == call[p].outcome
            IN  /\ last_pdf' = [last_pdf EXCEPT ![p] = result.pdf_bytes]
                /\ last_tex' = StoreTex(p, result)
                /\ last_workdir' = [last_workdir EXCEPT ![p] = PyStr(result.workdir)]
                /\ \/ /\ shown' = [shown EXCEPT ![p] = [kind |-> "success"]]
                      /\ profiles' =
                            IF app[p] = "chief_super_app"
                            THEN save_profile_from_state(profiles, SessionProfile,
                                                         call[p].caller_data,
                                                         result.pdf_bytes, result.tex_str)
                            ELSE profiles
                   \/ /\ app[p] = "chief_super_app"
                      /\ shown' = ShowError(p, "[Errno 28] No space left on device",
                                            PyStr(result.workdir))
                      /\ UNCHANGED profiles
       ELSE /\ shown' = ShowError(p, call[p].outcome.msg, last_workdir[p])
            /\ UNCHANGED <<last_pdf, last_tex, last_workdir, profiles>>
    /\ UNCHANGED <<workdirs, ncreated, budget, creator, call, known, cleaned, touched,
                   cleanup_call, app, sdata, prof_last>>
    /\ UNCHANGED <<escVars, assets, resVars, unreadable, texVars, ratioVars>>

NextApp ==
    \/ \E p \in Procs : Click(p)
    \/ \E p \in Procs : Mkdtemp(p)
    \/ \E p \in Procs : CopyBanner(p)
    \/ \E p \in Procs : CopyHighlight(p)
    \/ \E p \in Procs : WriteTex(p)
    \/ \E p \in Procs : RunCompiler(p)
    \/ \E p \in Procs : Collect(p)
    \/ \E p \in Procs : HandlerEnd(p)

\* One session of an app in which Generate is clicked MaxCalls times.
SpecApp == InitApp /\ [][NextApp]_vars

\* ------------------------------------------------- escaper: the claims
Specials == {"\\", "&", "%", "$", "#", "_", "{", "}", "~", "^"}

\* The escape sequence the specification assigns to each character.
Image(c) ==
    CASE c = "\\" -> <<"\\", "t", "e", "x", "t", "b", "a", "c", "k", "s", "l", "a", "s", "h", "{", "}">>
      [] c = "&" -> <<"\\", "&">>
      [] c = "%" -> <<"\\", "%">>
      [] c = "$" -> <<"\\", "$">>
      [] c = "#" -> <<"\\", "#">>
      [] c = "_" -> <<"\\", "_">>
      [] c = "{" -> <<"\\", "{">>
      [] c = "}" -> <<"\\", "}">>
      [] c = "~" -> <<"\\", "t", "e", "x", "t", "a", "s", "c", "i", "i", "t", "i", "l", "d", "e", "{", "}">>
      [] c = "^" -> <<"\\", "t", "e", "x", "t", "a", "s", "c", "i", "i", "c", "i", "r", "c", "u", "m", "{", "}">>
      [] OTHER -> <<c>>

IsPrefix(a, b) == Len(a) <= Len(b) /\ SubSeq(b, 1, Len(a)) = a

Drop(s, n) == SubSeq(s, n + 1, Len(s))

RECURSIVE Decode(_)
\* Reads an escaped text from left to right. A character that is not special
\* stands for itself; a special character must start one of the ten escape
\* sequences, which stands for its special character. ok is FALSE when a special
\* character occurs outside every escape sequence.
Decode(out) ==
    IF out = <<>> THEN [ok |-> TRUE, src |-> <<>>]
    ELSE IF Head(out) \notin Specials
         THEN LET r == Decode(Tail(out))
              IN  [ok |-> r.ok, src |-> <<Head(out)>> \o r.src]
         ELSE LET m == {c \in Specials : IsPrefix(Image(c), out)}
              IN  IF m = {} THEN [ok |-> FALSE, src |-> <<>>]
                  ELSE LET c == CHOOSE x \in m : TRUE
                           r == Decode(Drop(out, Len(Image(c))))
                       IN  [ok |-> r.ok /\ Cardinality(m) = 1, src |-> <<c>> \o r.src]

RECURSIVE Expected(_)
\* The concatenation, in input order, of the image of each character.
Expected(s) == IF s = <<>> THEN <<>> ELSE Image(Head(s)) \o Expected(Tail(s))

RECURSIVE Count(_, _)
\* The number of positions of s holding a character of the set cs.
Count(s, cs) ==
    IF s = <<>> THEN 0 ELSE (IF Head(s) \in cs THEN 1 ELSE 0) + Count(Tail(s), cs)

\* Two passes over the whole string: every backslash first, then each of the
\* nine other characters in turn, wherever it stands in the text so far.
TwoPass(s) ==
    ReplaceChain(ReplaceAll(s, "\\", Image("\\")),
                 [c \in Specials |-> Image(c)],
                 <<"&", "%", "$", "#", "_", "{", "}", "~", "^">>)

RECURSIVE SecondPass(_)
\* The second pass over a text whose positions are tagged: an item is either a
\* character of the input ("raw") or an escape sequence already put in ("done").
SecondPass(items) ==
    IF items = <<>> THEN <<>>
    ELSE (IF Head(items).tag = "raw" THEN Image(Head(items).ch) ELSE Head(items).seq)
         \o SecondPass(Tail(items))

\* The first pass: every backslash becomes its escape sequence, tagged as done.
FirstPass(s) ==
    [i \in 1..Len(s) |->
        IF s[i] = "\\" THEN [tag |-> "done", seq |-> Image("\\")]
        ELSE [tag |-> "raw", ch |-> s[i]]]

TwoPassOnInput(s) == SecondPass(FirstPass(s))

EscDone == esc_pc = "done"

\* C1: the output of latex_escape holds no unescaped special character: read
\* from left to right, every special character of the output starts (or lies
\* inside) one of the ten escape sequences, and the characters those sequences
\* stand for are exactly the characters of the input, in order.
C1_NoUnescapedSpecial ==
    (EscDone /\ value # None) =>
        LET d == Decode(esc_result.ret)
        IN  d.ok /\ d.src = str(value)

C1_Witness ==
    /\ EscDone
    /\ value = PyStr(<<"\\", "#", "t">>)
    /\ Len(esc_result.ret) = 19

\* C2 as stated: the result equals that of replacing every backslash over the
\* whole string and then each of the nine others in the resulting string.
C2_TwoPassOriginal ==
    (EscDone /\ value.kind = "str") => esc_result.ret = TwoPass(value.s)

\* C2 as amended: the result equals that of replacing every backslash first and
\* then each of the nine others only where it is a character of the input (the
\* braces of an inserted \textbackslash{} are left alone); the output holds one
\* backslash per special character of the input, so no backslash put in by a
\* substitution is escaped again.
C2_TwoPassOnInput ==
    (EscDone /\ value.kind = "str") =>
        /\ esc_result.ret = TwoPassOnInput(value.s)
        /\ Count(esc_result.ret, {"\\"}) = Count(value.s, Specials)

C2_Witness ==
    /\ EscDone
    /\ value = PyStr(<<"\\", "&">>)
    /\ esc_result.ret = Image("\\") \o <<"\\", "&">>

\* C3: the result is the concatenation, in input order, of the image of each
\* character; newline, non-ASCII text and every other character map to themselves.
C3_ConcatOfImages ==
    (EscDone /\ value.kind = "str") =>
        /\ esc_result.ret = Expected(value.s)
        /\ \A i \in 1..Len(value.s) :
              value.s[i] \notin Specials => Image(value.s[i]) = <<value.s[i]>>

C3_Witness ==
    /\ EscDone
    /\ value = PyStr(<<"~", NL, EAcute>>)
    /\ esc_result.ret = Image("~") \o <<NL, EAcute>>

\* C4: latex_escape(None) returns the empty string and does not raise.
C4_NoneGivesEmpty ==
    (EscDone /\ value = None) => (esc_result.ret = <<>> /\ ~esc_result.raised)

C4_Witness == EscDone /\ value = None /\ esc_result.ret = <<>>

\* ------------------------------------------------ resolver: the claims
\* The candidates in the order the specification gives them.
Candidates(maybe_path, template_dir, project_root, default_name) ==
    (IF maybe_path = None \/ maybe_path.s = RelPath(<<>>) THEN <<>>
     ELSE (IF maybe_path.s.abs THEN <<maybe_path.s>> ELSE <<>>)
          \o <<resolve(PathJoin(project_root, maybe_path.s)),
               resolve(PathJoin(template_dir, maybe_path.s))>>)
    \o <<resolve(PathJoin(template_dir, RelPath(<<default_name>>))),
         resolve(PathJoin(project_root, RelPath(<<default_name>>)))>>

ResolveDone == rs_pc = "done"

\* C9: _resolve_asset_path returns the first existing candidate of the fixed
\* order (explicit absolute path, explicit path under the project root, under
\* the template directory, default name in the template directory, in the
\* project root); it probes no candidate after the first existing one; and it
\* returns None exactly when no candidate exists.
C9_FirstExistingCandidate ==
    ResolveDone =>
        LET c == Candidates(rs_args.maybe_path, rs_args.template_dir, Cwd,
                            rs_args.default_name)
            hits == {i \in 1..Len(c) : Exists(c[i], assets)}
        IN  IF hits = {}
            THEN rs_out.ret = None /\ rs_out.probes = c
            ELSE LET first == CHOOSE i \in hits : \A j \in hits : i <= j
                 IN  /\ rs_out.ret = c[first]
                     /\ rs_out.probes = SubSeq(c, 1, first)

\* The default name exists in both places and the explicit path nowhere: the
\* template directory's file is returned after probing three candidates.
C9_Witness ==
    /\ ResolveDone
    /\ rs_args.maybe_path = PyStr(RelPath(<<"up.png">>))
    /\ rs_args.default_name = "photo_banner.png"
    /\ rs_args.template_dir = AbsPath(<<"proj", "templates">>)
    /\ assets = {AbsPath(<<"proj", "photo_banner.png">>),
                 AbsPath(<<"proj", "templates", "photo_banner.png">>)}
    /\ rs_out.ret = AbsPath(<<"proj", "templates", "photo_banner.png">>)
    /\ Len(rs_out.probes) = 3

\* --------------------------------------------------- build: the claims
CompilerExitedNonZero(p) == call[p].proc.ran /\ call[p].proc.returncode # 0

\* C5: when the compiler exits with a non-zero status the build call fails
\* with an error whose message holds the whole captured output verbatim, and
\* no RenderResult is returned.
C5_CompilerLogInError ==
    \A p \in Procs :
        CompilerExitedNonZero(p) =>
            /\ pc[p] = "raised"
            /\ call[p].outcome.kind = "error"
            /\ Contains(call[p].outcome.msg, call[p].proc.stdout)

C5_Witness ==
    \E p \in Procs :
        /\ CompilerExitedNonZero(p)
        /\ IsChief(p)
        /\ call[p].proc.stdout = "! Undefined control sequence.\nl.12 \\foo\n"
        /\ pc[p] = "raised"

\* C6: whenever a build call fails after its working directory was created,
\* the error surfaced to the caller reports that directory's path.
C6_FailureReportsWorkdir ==
    \A p \in Procs :
        (pc[p] = "raised" /\ call[p].workdir # NoDir) =>
            Contains(call[p].outcome.msg, PathStr(call[p].workdir))

\* C7: a working directory a build created exists until cleanup_workdir is
\* called on its path: no step of a build removes it, whether the compiler
\* failed or the build succeeded.
C7_WorkdirKeptUntilCleanup ==
    /\ \A d \in DOMAIN creator : d \in DOMAIN workdirs \/ d \in cleaned
    /\ \A p \in Procs :
          (pc[p] \in {"raised", "returned"} /\ call[p].workdir # NoDir
              /\ call[p].workdir \notin cleaned) => call[p].workdir \in DOMAIN workdirs

\* A first build's directory was removed by cleanup_workdir; the second build's
\* compiler failed and its directory is still there.
C7_Witness ==
    /\ CompilerExitedNonZero(1)
    /\ pc[1] = "raised"
    /\ call[1].workdir \in DOMAIN workdirs
    /\ call[1].workdir \notin cleaned
    /\ \E d \in cleaned : d \notin DOMAIN workdirs

\* C8: two build calls running at the same time use two distinct working
\* directories, neither reads or writes in a directory the other made, and
\* each call's RenderResult holds the tex_str rendered from its own data and
\* the PDF compiled from it in its own directory.
C8_ConcurrentBuildsIsolated ==
    /\ \A p, q \in Procs :
          (p # q /\ call[p].workdir # NoDir /\ call[q].workdir # NoDir) =>
              call[p].workdir # call[q].workdir
    /\ \A t \in touched : creator[t[2]] = t[1]
    /\ \A p \in Procs :
          pc[p] = "returned" =>
              LET r == call[p].outcome
              IN  /\ r.kind = "RenderResult"
                  /\ r.workdir = call[p].workdir
                  /\ creator[r.workdir] = p
                  /\ r.tex_str.template = call[p].template_name
                  /\ r.tex_str.data["text"] = call[p].caller_data["text"]
                  /\ r.pdf_bytes = [kind |-> "pdf", magic |-> "%PDF", src |-> r.tex_str]

C8_Witness ==
    /\ pc[1] = "returned" /\ pc[2] = "returned"
    /\ IsChief(1) /\ IsChief(2)
    /\ call[1].caller_data = DataA /\ call[2].caller_data = DataB
    /\ call[1].outcome.workdir # call[2].outcome.workdir
    /\ call[1].outcome.pdf_bytes # call[2].outcome.pdf_bytes

\* C10: when the banner or the highlight does not resolve, the chief build does
\* not fail because of it, and the record handed to the template carries no
\* reference to that asset.
C10_MissingAssetOmitted ==
    \A p \in Procs :
        /\ (IsChief(p) /\ call[p].workdir # NoDir /\ pc[p] = "raised"
               /\ call[p].banner_src = None /\ call[p].highlight_src = None) =>
              call[p].outcome.type # "OSError"
        /\ (IsChief(p) /\ call[p].tex_str # NoTex) =>
              /\ call[p].banner_src = None =>
                    Get(call[p].tex_str.data, "photo_banner_path") = None
              /\ call[p].highlight_src = None =>
                    Get(call[p].tex_str.data, "highlight_path") = None

\* The name under which the template is told to load the asset src.
BaseNameRef(src) == PyStr(RelPath(<<PathName(src)>>))

\* The positions of a chief build after both copies were made.
AfterCopies == {"write_tex", "run", "collect", "returned"}

\* C11: a resolved asset is copied, bytes unchanged, to the file of its base
\* name in the build's working directory, replacing a file already there under
\* that name; the data entry is set to that base name, and the record the
\* template is rendered from refers to each resolved asset by it.
C11_AssetCopiedUnderBaseName ==
    \A p \in Procs :
        (IsChief(p) /\ call[p].workdir \in DOMAIN workdirs) =>
            /\ (pc[p] = "copy_highlight" /\ call[p].banner_src # None) =>
                  /\ PathName(call[p].banner_src) \in DOMAIN Dir(p)
                  /\ Dir(p)[PathName(call[p].banner_src)] = Bytes(call[p].banner_src)
                  /\ call[p].data["photo_banner_path"] = BaseNameRef(call[p].banner_src)
            /\ (pc[p] \in AfterCopies /\ call[p].highlight_src # None) =>
                  /\ PathName(call[p].highlight_src) \in DOMAIN Dir(p)
                  /\ Dir(p)[PathName(call[p].highlight_src)] = Bytes(call[p].highlight_src)
            /\ (call[p].tex_str # NoTex /\ call[p].banner_src # None) =>
                  call[p].tex_str.data["photo_banner_path"] = BaseNameRef(call[p].banner_src)
            /\ (call[p].tex_str # NoTex /\ call[p].highlight_src # None) =>
                  call[p].tex_str.data["highlight_path"] = BaseNameRef(call[p].highlight_src)

\* The banner and the highlight have the same base name: the second copy
\* replaced the first, and the template was rendered with that name.
C11_Witness ==
    \E p \in Procs :
        /\ IsChief(p) /\ pc[p] = "run"
        /\ call[p].banner_src = AbsPath(<<"proj", "up.png">>)
        /\ call[p].highlight_src = AbsPath(<<"abs", "up.png">>)
        /\ Dir(p)["up.png"] = Bytes(AbsPath(<<"abs", "up.png">>))
        /\ call[p].tex_str.data["highlight_path"] = PyStr(RelPath(<<"up.png">>))

\* C12: a build call does not change the caller's data record: once
\* render_and_compile or render_and_compile_chief has returned or raised, the
\* caller's dict holds exactly the items it held when the call was made; the
\* base names are set in the call's own copy.
C12_CallerDataUnchanged ==
    \A p \in Procs :
        pc[p] \in {"returned", "raised"} => call[p].caller_data = call[p].passed

\* A chief build returned; its copy got a highlight_path the caller's record
\* does not have.
C12_Witness ==
    \E p \in Procs :
        /\ pc[p] = "returned" /\ IsChief(p)
        /\ call[p].passed = DataA
        /\ Get(call[p].data, "highlight_path") = PyStr(RelPath(<<"highlight.png">>))
        /\ Get(call[p].caller_data, "highlight_path") = None

\* The compiler ran for caller p and exited with status 0.
CompilerExitedZero(p) == call[p].proc.ran /\ call[p].proc.returncode = 0

\* C13: when the compiler exited with status 0 and main.pdf is not in the
\* working directory, the build call raises the error of its own that says
\* so, which is not the error of a failed compiler run (it names no failed
\* command and no build folder), and it returns no RenderResult.
C13_MissingPdfOwnError ==
    \A p \in Procs :
        (/\ CompilerExitedZero(p)
         /\ pc[p] \in {"returned", "raised"}
         /\ call[p].workdir \in DOMAIN workdirs
         /\ "main.pdf" \notin DOMAIN Dir(p)) =>
            /\ pc[p] = "raised"
            /\ call[p].outcome.kind = "error"
            /\ call[p].outcome.type = "RuntimeError"
            /\ call[p].outcome.msg
                  = "Build succeeded but main.pdf was not created (unexpected)."
            /\ ~Contains(call[p].outcome.msg, "Command failed:")
            /\ ~Contains(call[p].outcome.msg, "Temp build folder:")

C13_Witness ==
    \E p \in Procs :
        /\ CompilerExitedZero(p)
        /\ pc[p] = "raised"
        /\ "main.tex" \in DOMAIN Dir(p)
        /\ "main.pdf" \notin DOMAIN Dir(p)

\* C14: when the compiler exited with status 0 and main.pdf is there, the build
\* call returns a RenderResult: its pdf_bytes are the content of main.pdf in
\* the working directory this call made, its tex_str is the text written to
\* main.tex there, and its workdir is that directory.
C14_ResultIsThisBuildsOutput ==
    \A p \in Procs :
        (/\ CompilerExitedZero(p)
         /\ pc[p] \in {"returned", "raised"}
         /\ call[p].workdir \in DOMAIN workdirs
         /\ "main.pdf" \in DOMAIN Dir(p)) =>
            /\ pc[p] = "returned"
            /\ call[p].outcome.kind = "RenderResult"
            /\ call[p].outcome.pdf_bytes = Dir(p)["main.pdf"]
            /\ call[p].outcome.tex_str = Dir(p)["main.tex"]
            /\ call[p].outcome.workdir = call[p].workdir
            /\ creator[call[p].workdir] = p

\* A second build of the caller returned, from a directory other than the
\* first build's, which is still there.
C14_Witness ==
    /\ pc[1] = "returned" /\ IsChief(1)
    /\ call[1].workdir = mkdtemp("cv_build_", 1)
    /\ mkdtemp("cv_build_", 0) \in DOMAIN workdirs
    /\ call[1].workdir \in DOMAIN workdirs
    /\ call[1].outcome.pdf_bytes = Dir(1)["main.pdf"]
    /\ Get(call[1].outcome.tex_str.data, "highlight_path")
          = PyStr(RelPath(<<"highlight.png">>))

\* Caller p's step is the entry of a build call that ends at once with
\* TemplateNotFound.
FailsTemplateLookup(p) ==
    /\ budget'[p] < budget[p]
    /\ call'[p].outcome.kind = "error"
    /\ call'[p].outcome.type = "TemplateNotFound"

\* C15: a build call naming a template that does not exist fails before it
\* makes a working directory, copies an asset, writes a file or runs the
\* compiler: the failed call leaves the file system as it was.
C15_TemplateNotFoundTouchesNothing ==
    /\ [](\A p \in Procs :
            (call[p].outcome.kind = "error" /\ call[p].outcome.type = "TemplateNotFound") =>
                /\ pc[p] = "raised"
                /\ call[p].workdir = NoDir
                /\ ~call[p].proc.ran)
    /\ [][\A p \in Procs :
            FailsTemplateLookup(p) =>
                /\ workdirs' = workdirs
                /\ ncreated' = ncreated
                /\ creator' = creator
                /\ touched' = touched
                /\ assets' = assets]_vars

\* A first build left its directory; the second call failed on the template.
C15_Witness ==
    /\ pc[1] = "raised"
    /\ call[1].outcome.type = "TemplateNotFound"
    /\ call[1].fn = "render_and_compile_chief"
    /\ ncreated = 1
    /\ mkdtemp("cv_build_", 0) \in DOMAIN workdirs

\* C16: cleanup_workdir never raises. Called with None, with the empty str or
\* with a path that is no directory it changes nothing and returns; called on
\* a directory whose removal fails, it swallows the error and returns. (Every
\* step leaves the directories and files alone and raises nothing, or is no
\* cleanup_workdir call on something that is not a directory.)
C16_CleanupNeverRaises ==
    /\ [](cleanup_call.called => ~cleanup_call.raised)
    /\ [][\/ /\ workdirs' = workdirs
              /\ assets' = assets
              /\ cleanup_call'.called => ~cleanup_call'.raised
           \/ ~ \E w \in CleanupArgs, f \in BOOLEAN :
                    /\ ~(Truthy(w) /\ IsDir(Path(w)))
                    /\ cleanup_workdir(w, f)]_vars

\* cleanup_workdir was called on a directory that is gone, so that a later
\* call on its path finds nothing, and on one whose removal failed: that one
\* is still there.
C16_Witness ==
    /\ cleanup_call.called
    /\ \E d \in cleaned : d \notin DOMAIN workdirs /\ PyStr(d) \in CleanupArgs
    /\ \E d \in cleaned : d \in DOMAIN workdirs

\* ---------------------------------------------------- apps: the claims
\* Session p's step is a Generate click made while last_workdir tracks a
\* directory.
ClicksWhileTracking(p) ==
    /\ app[p] \in Apps
    /\ budget'[p] < budget[p]
    /\ last_workdir[p] # None

\* C17: a Generate click made while last_workdir tracks a directory calls
\* cleanup_workdir on it and resets last_workdir to None before the new build
\* makes its directory; while the handler runs nothing is tracked; after a
\* successful build last_workdir is that build's directory, so whatever is
\* tracked is the directory of the most recent build.
C17_TrackedIsLatestBuild ==
    /\ [](\A p \in Procs :
            app[p] \in Apps =>
                /\ pc[p] # "idle" => last_workdir[p] = None
                /\ (pc[p] = "idle" /\ last_workdir[p] # None) =>
                      /\ call[p].outcome.kind = "RenderResult"
                      /\ last_workdir[p] = PyStr(call[p].workdir)
                /\ (pc[p] = "idle" /\ call[p].outcome.kind = "RenderResult") =>
                      last_workdir[p] = PyStr(call[p].workdir))
    /\ [][\A p \in Procs :
            ClicksWhileTracking(p) =>
                /\ Path(last_workdir[p]) \notin cleaned
                /\ Path(last_workdir[p]) \in cleaned'
                /\ last_workdir'[p] = None
                /\ ncreated' = ncreated
                /\ DOMAIN workdirs' \subseteq DOMAIN workdirs]_vars

\* Two clicks, two successful builds: the first build's directory was cleaned
\* and removed, the second build's is tracked.
C17_Witness ==
    /\ pc[1] = "idle" /\ budget[1] = 0
    /\ last_workdir[1] = PyStr(mkdtemp("cv_build_", 1))
    /\ mkdtemp("cv_build_", 0) \in cleaned
    /\ mkdtemp("cv_build_", 0) \notin DOMAIN workdirs
    /\ mkdtemp("cv_build_", 1) \in DOMAIN workdirs

\* The working directories session p's builds made that still exist.
SessionDirs(p) == {d \in DOMAIN workdirs : creator[d] = p}

\* C18: temp directories do not accumulate: whatever the Generate clicks of a
\* session and however their builds end, at most one working directory made
\* by the session exists.
C18_AtMostOneWorkdir ==
    \A p \in Procs : app[p] \in Apps => Cardinality(SessionDirs(p)) <= 1

\* ------------------------------------------------ rendering: the claims
\* The template-syntax tokens test_script.py looks for in the rendered text.
TemplateTokens ==
    {<<"{", "%", " ">>, <<"%", "}">>, <<"{", "#", " ">>, <<"#", "}">>,
     <<"(", "(", "*">>, <<"*", ")", ")">>, <<"(", "(", "#">>, <<"#", ")", ")">>}

\* The tokens made of characters the escaping leaves next to each other.
UnescapedTokens == {<<"(", "(", "*">>, <<"*", ")", ")">>, <<"#", ")", ")">>}

C20_PdfMagicHeader ==
    \A p \in Procs :
        (pc[p] = "returned" /\ call[p].outcome.kind = "RenderResult") =>
            call[p].outcome.pdf_bytes.magic = "%PDF"

\* C21: a build call invokes the external compiler at most once. After an
\* invocation that exits non-zero the call has raised, with the compiler's
\* failure in the error, having run the compiler that one time; and the next
\* call of the caller starts with no run of its own and gets a working
\* directory no earlier call had.
C21_CompilerAtMostOnce ==
    /\ [](\A p \in Procs :
            /\ call[p].runs <= 1
            /\ CompilerExitedNonZero(p) =>
                  /\ pc[p] = "raised"
                  /\ call[p].runs = 1
                  /\ call[p].outcome.kind = "error"
                  /\ Contains(call[p].outcome.msg, RunFailedMsg(call[p].proc.stdout)))
    /\ [][\A p \in Procs :
            (pc[p] = "mkdtemp" /\ pc'[p] # "mkdtemp") =>
                /\ call'[p].runs = 0
                /\ call'[p].workdir \notin DOMAIN creator
                /\ call'[p].workdir \notin DOMAIN workdirs
                /\ workdirs'[call'[p].workdir] = <<>>]_vars

\* The caller's second call has its directory, after a first call whose
\* compiler exited non-zero, and its own compiler run exited non-zero too.
C21_Witness ==
    /\ budget[1] = 0
    /\ ncreated = MaxCalls
    /\ pc[1] = "raised"
    /\ CompilerExitedNonZero(1)
    /\ call[1].runs = 1
    /\ \E d \in known : d # call[1].workdir /\ d \in DOMAIN workdirs

\* The asset src of call p, if it resolved, is in the working directory under
\* its base name, and the data field key names it by that base name.
AssetInPlace(p, src, key) ==
    src # None =>
        /\ PathName(src) \in DOMAIN Dir(p)
        /\ Get(call[p].data, key) = PyStr(RelPath(<<PathName(src)>>))

\* C22: the steps of one render_and_compile_chief call occur in this order:
\* working directory created, resolved assets copied into it, template
\* rendered with the base names, main.tex written, compiler invoked with the
\* build's directory as its working directory, main.pdf read. The compiler
\* is never invoked before main.tex and every resolved asset are in that
\* directory, and main.pdf is never read after a non-zero exit.
C22_ChiefStepOrder ==
    /\ [](\A p \in Procs :
            IsChief(p) =>
                /\ pc[p] = "copy_banner" =>
                      call[p].workdir \in DOMAIN workdirs /\ Dir(p) = <<>>
                /\ pc[p] \in {"copy_banner", "copy_highlight", "write_tex"} =>
                      /\ "main.tex" \notin DOMAIN Dir(p)
                      /\ call[p].tex_str = NoTex
                      /\ call[p].runs = 0
                /\ pc[p] \in {"mkdtemp", "copy_banner", "copy_highlight", "write_tex", "run"} =>
                      ~call[p].proc.ran /\ ~call[p].pdf_read
                /\ call[p].pdf_read => CompilerExitedZero(p)
                /\ CompilerExitedNonZero(p) => ~call[p].pdf_read)
    /\ [][\A p \in Procs :
            (IsChief(p) /\ call'[p].runs > call[p].runs) =>
                /\ "main.tex" \in DOMAIN Dir(p)
                /\ Dir(p)["main.tex"] = RenderTex(call[p].template_name, call[p].data)
                /\ AssetInPlace(p, call[p].banner_src, "photo_banner_path")
                /\ AssetInPlace(p, call[p].highlight_src, "highlight_path")
                /\ call'[p].proc.ran => call'[p].proc.cwd = call[p].workdir]_vars

\* A render_and_compile_chief call with a banner and a highlight has read
\* main.pdf and returned.
C22_Witness ==
    /\ IsChief(1)
    /\ pc[1] = "returned"
    /\ call[1].pdf_read
    /\ call[1].banner_src # None
    /\ call[1].highlight_src # None
    /\ call[1].proc.cwd = call[1].workdir

\* C23: when the data record carries a banner in photo_banner_bytes, the
\* renderer uses it: at the compiler's run the file standing in the working
\* directory under the name photo_banner_path gives has exactly those bytes.
C23_BannerBytesUsed ==
    \A p \in Procs :
        (/\ app[p] \in Apps
         /\ IsChief(p)
         /\ pc[p] \in {"run", "collect"}
         /\ "photo_banner_bytes" \in DOMAIN call[p].data) =>
            LET name == PathName(Get(call[p].data, "photo_banner_path").s)
            IN  /\ name \in DOMAIN Dir(p)
                /\ Dir(p)[name] = call[p].data["photo_banner_bytes"]

\* The latest operation loaded the profile that the operation before it saved.
LoadedAfterSave == prof_last.op = "load" /\ prof_last.after_save

HasBannerBytes(d) == "photo_banner_bytes" \in DOMAIN d

\* No data.txt holds a photo_banner_bytes member.
JsonWithoutBannerBytes ==
    \A id \in DOMAIN profiles :
        /\ profiles[id].data # NoFile
        /\ profiles[id].data.j = "object"
        /\ "photo_banner_bytes" \notin DOMAIN profiles[id].data.members

\* C24 as stated: after save_profile_from_state(p, ...) followed by
\* load_profile_into_state(p) the session data equals the session data at the
\* time of saving, with photo_banner_bytes restored from the banner file when
\* the saved data had banner bytes and absent when it had none; data.txt
\* never contains photo_banner_bytes.
C24_ProfileRoundTrip ==
    /\ JsonWithoutBannerBytes
    /\ LoadedAfterSave =>
          /\ Pop(sdata, "photo_banner_bytes") = Pop(prof_last.saved, "photo_banner_bytes")
          /\ HasBannerBytes(prof_last.saved) =>
                /\ HasBannerBytes(sdata)
                /\ sdata["photo_banner_bytes"] = profiles[prof_last.profile_id].banner
                /\ sdata["photo_banner_bytes"] = prof_last.saved["photo_banner_bytes"]
          /\ ~HasBannerBytes(prof_last.saved) => ~HasBannerBytes(sdata)

\* C24 as amended: the loaded data equals the saved data in every key but
\* photo_banner_bytes; photo_banner_bytes is the content of the profile's
\* banner file when that file exists, which is the saved data's banner bytes
\* when it had some and else a banner an earlier save left there, and is
\* absent when no banner file exists; data.txt never contains
\* photo_banner_bytes.
C24_RoundTripKeepsOldBanner ==
    /\ JsonWithoutBannerBytes
    /\ LoadedAfterSave =>
          LET banner == profiles[prof_last.profile_id].banner
          IN  /\ Pop(sdata, "photo_banner_bytes") = Pop(prof_last.saved, "photo_banner_bytes")
              /\ HasBannerBytes(sdata) <=> banner # NoFile
              /\ HasBannerBytes(sdata) => sdata["photo_banner_bytes"] = banner
              /\ HasBannerBytes(prof_last.saved) =>
                    banner = prof_last.saved["photo_banner_bytes"]

\* Data with an edited name, an unticked checkbox and an uploaded banner was
\* saved and loaded back with its banner.
C24_Witness ==
    /\ LoadedAfterSave
    /\ prof_last.saved["first_name"] = PyStr("Ann")
    /\ prof_last.saved["summary_enabled"] = PyBool(FALSE)
    /\ HasBannerBytes(prof_last.saved)
    /\ sdata = prof_last.saved

\* C25: safe_integer_ratio returns (1525, 700) whenever both img_h/700 and
\* img_w/1525 exceed 1.1 (and whenever a dimension is not positive);
\* otherwise it returns (int(1525*r), int(700*r)) with
\* r = min(img_h/700, img_w/1525) / 1.1, falling back to (1525, 700) when
\* either component would be below 2.
C25_RatioWithMarginOnePointOne ==
    ratio_pc = "done" =>
        LET big == img_h * DocDen > TARGET_H * DocNum /\ img_w * DocDen > TARGET_W * DocNum
            height_is_smallest == img_h * TARGET_W <= img_w * TARGET_H
            \* r = top / bottom
            top == (IF height_is_smallest THEN img_h ELSE img_w) * DocDen
            bottom == (IF height_is_smallest THEN TARGET_H ELSE TARGET_W) * DocNum
        IN  IF img_w <= 0 \/ img_h <= 0 \/ big THEN ratio_out = <<TARGET_W, TARGET_H>>
            ELSE \E rw \in IntOfProduct(TARGET_W, top, bottom),
                    rh \in IntOfProduct(TARGET_H, top, bottom) :
                    ratio_out = IF rw < 2 \/ rh < 2 THEN <<TARGET_W, TARGET_H>>
                                ELSE <<rw, rh>>

\* Session p's step is the end of a Generate handler in its failure branch,
\* the one that displays "Failed to compile LaTeX.".
EndsInFailureBranch(p) ==
    /\ app[p] \in Apps
    /\ pc[p] \in {"returned", "raised"}
    /\ pc'[p] = "idle"
    /\ shown'[p].kind = "error"

\* C26: in all three apps, when a Generate click ends in the failure branch,
\* last_pdf and last_tex keep the values they had before the click, and the
\* branch is reached only when the build produced no new PDF.
C26_FailureKeepsLastOutputs ==
    [][\A p \in Procs :
          EndsInFailureBranch(p) =>
              /\ last_pdf'[p] = last_pdf[p]
              /\ last_tex'[p] = last_tex[p]
              /\ pc[p] = "raised"]_vars

\* C27: in every reachable session state of each app, if last_workdir is not
\* None then that directory was made by the most recent successful build of
\* the session, which is its latest build, it has not been passed to
\* cleanup_workdir and still exists, and last_pdf and last_tex are the
\* outputs of that same build.
C27_TrackedDirAndOutputsAgree ==
    \A p \in Procs :
        (app[p] \in Apps /\ last_workdir[p] # None) =>
            LET d == Path(last_workdir[p])
            IN  /\ d \in DOMAIN creator
                /\ creator[d] = p
                /\ d = mkdtemp("cv_build_", ncreated - 1)
                /\ d \notin cleaned
                /\ d \in DOMAIN workdirs
                /\ pc[p] = "idle"
                /\ call[p].outcome.kind = "RenderResult"
                /\ call[p].outcome.workdir = d
                /\ last_pdf[p] = call[p].outcome.pdf_bytes
                /\ last_tex[p] = call[p].outcome.tex_str
                /\ last_pdf[p] = workdirs[d]["main.pdf"]
                /\ last_tex[p] = workdirs[d]["main.tex"]

\* After a first successful build with one text, a second successful build
\* with another text is tracked, with its own outputs.
C27_Witness ==
    /\ app[1] \in Apps
    /\ budget[1] = 0
    /\ last_workdir[1] = PyStr(mkdtemp("cv_build_", 1))
    /\ mkdtemp("cv_build_", 0) \in cleaned
    /\ last_tex[1] # None
    /\ last_tex[1].data["text"] = PyStr("C")
    /\ last_pdf[1] # None
    /\ last_pdf[1].src = last_tex[1]

\* The file of call p's working directory that the data field key names.
NamedFile(p, key) == Dir(p)[PathName(call[p].data[key].s)]

\* C28: when the banner and the highlight both resolve, to two different
\* source files, the working directory at the compiler's invocation holds the
\* bytes of each of them under the name stored in its data field
\* (photo_banner_path, highlight_path): no asset copy overwrote the other
\* asset, and main.tex overwrote no asset.
C28_AssetsNotOverwritten ==
    \A p \in Procs :
        (/\ IsChief(p)
         /\ pc[p] = "run"
         /\ call[p].banner_src # None
         /\ call[p].highlight_src # None
         /\ call[p].banner_src # call[p].highlight_src) =>
            /\ NamedFile(p, "photo_banner_path") = Bytes(call[p].banner_src)
            /\ NamedFile(p, "highlight_path") = Bytes(call[p].highlight_src)

=============================================================================
